---------------------------- MODULE Spec2Model ----------------------------
(***************************************************************************)
(* A model of SceneManager (Source/SceneManager.cpp): the texture          *)
(* registry, the material registry, the transform composer, the shader     *)
(* state dispatcher and the scene's render routines.                       *)
(*                                                                         *)
(* Numbers.  The scene's float constants have at most two decimals and its *)
(* angles are multiples of 30 degrees, so every float is kept exactly: a   *)
(* length, colour or scale is an integer count of hundredths, and a matrix *)
(* entry is a pair <<a, b>> standing for a + b*sqrt(3).  Float rounding is *)
(* outside the model.                                                      *)
(***************************************************************************)
EXTENDS Integers, Sequences, FiniteSets, TLC

\* the number of texture units / cells of m_textureIDs
MaxTextures == 16

\* bounds of the exploration
MaxPrepares == 4
MaxDirectLoads == 1

NULL == "NULL"
ShaderManager == "ShaderManager"

\* the five loads of LoadSceneTextures, in call order
SceneTextures ==
  << [file |-> "textures/marble.jpg",     tag |-> "marble"],
     [file |-> "textures/gold.jpg",       tag |-> "gold"],
     [file |-> "textures/versace.jpg",    tag |-> "versace"],
     [file |-> "textures/blue_glass.jpg", tag |-> "blue_glass"],
     [file |-> "textures/perfume.jpg",    tag |-> "perfume"] >>

SceneFiles == { SceneTextures[i].file : i \in 1..Len(SceneTextures) }
SceneTags == { SceneTextures[i].tag : i \in 1..Len(SceneTextures) }

\* tags a caller may pass: the scene's and two that the scene never registers
Tags == SceneTags \cup {"nope", ""}

\* what stbi_load yields for a file: its channel count, 0 when it returns NULL
DecodeResults == {0, 1, 3, 4}

\* cells of m_textureIDs the model keeps: the array itself (0..MaxTextures-1)
\* and the memory right after it that one more PrepareScene can reach
Cells == 0..(MaxTextures + Len(SceneTextures) - 1)

EmptyCell == [ID |-> 0, tag |-> ""]

VARIABLES
  m_pShaderManager,   \* NULL or the shader collaborator
  m_loadedTextures,   \* running count of registered textures
  m_textureIDs,       \* cell index -> [ID, tag]
  m_objectMaterials,  \* sequence of [tag, diffuseColor, specularColor, shininess]
  files,              \* the file system: file name -> decode result
  glNextID,           \* the next texture name glGenTextures hands out
  glTextureUnits,     \* texture unit -> texture name bound to it (0: none)
  uniforms,           \* the shader program's uniform values, <<>> when never written
  crashed,            \* the process has died (null dereference, wild write)
  lastCall,           \* the most recent call: [op, args, ret, out]
  events,             \* calls, uniform writes and draws made by the most recent call
  lastStateCall,      \* the most recent shader-state call, "" when none yet
  frames,             \* the event lists of the last two RenderScene calls since the registry changed
  loadLog,            \* history: the tags of the successful CreateGLTexture calls, in order
  prepares,           \* number of PrepareScene calls so far
  directLoads         \* number of direct CreateGLTexture calls so far

vars == << m_pShaderManager, m_loadedTextures, m_textureIDs, m_objectMaterials,
           files, glNextID, glTextureUnits, uniforms, crashed, lastCall, events,
           lastStateCall, frames, loadLog, prepares, directLoads >>

-----------------------------------------------------------------------------
(* Texture registry *)

\* the registry and the GL name counter as one value that a chain of loads threads through
Registry ==
  [ count |-> m_loadedTextures, ids |-> m_textureIDs, nextID |-> glNextID,
    log |-> loadLog, crashed |-> crashed, ret |-> FALSE ]

\* the same load, but registering before the channel count is looked at
CreateGLTexture_RegisterFirst(reg, filename, tag, oob) ==
  LET colorChannels == files[filename]
      textureID == reg.nextID
  IN  IF reg.crashed THEN reg
      ELSE IF colorChannels = 0 THEN [reg EXCEPT !.ret = FALSE]
      ELSE IF reg.count >= MaxTextures /\ oob = "crash"
        THEN [reg EXCEPT !.nextID = @ + 1, !.crashed = TRUE]
      ELSE [reg EXCEPT !.nextID = @ + 1,
                       !.ids[reg.count] = [ID |-> textureID, tag |-> tag],
                       !.count = @ + 1,
                       !.log = IF colorChannels \in {3, 4} THEN Append(@, tag) ELSE @,
                       !.ret = colorChannels \in {3, 4}]

\* CreateGLTexture(filename, tag).  oob is what the write past the array's end
\* does when the array is full: "crash", or "stored" (it lands in the memory
\* after the array, where a later read of the same index finds it).
CreateGLTexture(reg, filename, tag, oob) ==
  LET colorChannels == files[filename]
      textureID == reg.nextID
  IN  IF reg.crashed THEN reg
      ELSE IF colorChannels = 0 THEN [reg EXCEPT !.ret = FALSE]
      ELSE IF colorChannels \notin {3, 4}
        THEN [reg EXCEPT !.nextID = @ + 1, !.ret = FALSE]
      ELSE IF reg.count >= MaxTextures /\ oob = "crash"
        THEN [reg EXCEPT !.nextID = @ + 1, !.crashed = TRUE]
      ELSE [reg EXCEPT !.nextID = @ + 1,
                       !.ids[reg.count] = [ID |-> textureID, tag |-> tag],
                       !.count = @ + 1,
                       !.log = Append(@, tag),
                       !.ret = TRUE]

\* BindGLTextures: one pass over the registered entries
BindGLTextures(reg, units) ==
  IF reg.crashed THEN units
  ELSE [i \in Cells |-> IF i < reg.count THEN reg.ids[i].ID ELSE units[i]]

RECURSIVE LoadFrom(_, _, _)
LoadFrom(reg, i, oob) ==
  IF i > Len(SceneTextures) THEN reg
  ELSE LoadFrom(CreateGLTexture(reg, SceneTextures[i].file, SceneTextures[i].tag, oob),
                i + 1, oob)

\* LoadSceneTextures: the five loads (their results are dropped), then the bind
LoadSceneTextures(reg, oob) == LoadFrom(reg, 1, oob)

RECURSIVE ScanTextureSlot(_, _)
ScanTextureSlot(tag, index) ==
  IF index < m_loadedTextures
    THEN IF m_textureIDs[index].tag = tag THEN index
         ELSE ScanTextureSlot(tag, index + 1)
    ELSE -1

\* a scan that keeps going after a match
FindTextureSlot_LastMatch(tag) ==
  LET hits == { i \in Cells : i < m_loadedTextures /\ m_textureIDs[i].tag = tag }
  IN  IF hits = {} THEN -1 ELSE CHOOSE i \in hits : \A j \in hits : j <= i

\* a scan whose result starts at slot 0 instead of -1
FindTextureSlot_ZeroDefault(tag) ==
  LET slot == ScanTextureSlot(tag, 0) IN IF slot = -1 THEN 0 ELSE slot

\* FindTextureSlot(tag): first match, -1 when none
FindTextureSlot(tag) == ScanTextureSlot(tag, 0)

-----------------------------------------------------------------------------
(* Exact arithmetic: a number is <<a, b>>, standing for a + b*sqrt(3) *)

N(a) == <<a, 0>>
NNeg(x) == <<0 - x[1], 0 - x[2]>>

\* the two parts of the product x*y: (a + b*sqrt(3))(c + d*sqrt(3)) = (ac + 3bd) + (ad + bc)*sqrt(3)
MulWhole(x, y) == x[1] * y[1] + 3 * x[2] * y[2]
MulRoot(x, y) == x[1] * y[2] + x[2] * y[1]

\* 2*cos and 2*sin of an angle in degrees, a multiple of 30 (glm::radians, then cos/sin)
Cos2(deg) ==
  LET d == deg % 360
  IN  CASE d = 0 -> <<2, 0>>    [] d = 30 -> <<0, 1>>    [] d = 60 -> <<1, 0>>
        [] d = 90 -> <<0, 0>>   [] d = 120 -> <<-1, 0>>  [] d = 150 -> <<0, -1>>
        [] d = 180 -> <<-2, 0>> [] d = 210 -> <<0, -1>>  [] d = 240 -> <<-1, 0>>
        [] d = 270 -> <<0, 0>>  [] d = 300 -> <<1, 0>>   [] d = 330 -> <<0, 1>>

Sin2(deg) ==
  LET d == deg % 360
  IN  CASE d = 0 -> <<0, 0>>    [] d = 30 -> <<1, 0>>    [] d = 60 -> <<0, 1>>
        [] d = 90 -> <<2, 0>>   [] d = 120 -> <<0, 1>>   [] d = 150 -> <<1, 0>>
        [] d = 180 -> <<0, 0>>  [] d = 210 -> <<-1, 0>>  [] d = 240 -> <<0, -1>>
        [] d = 270 -> <<-2, 0>> [] d = 300 -> <<0, -1>>  [] d = 330 -> <<-1, 0>>

\* one entry of a product of two 4x4 matrices: the sum over k of A[i][k] * B[k][j]
MatCell(A, B, i, j) ==
  << MulWhole(A[i][1], B[1][j]) + MulWhole(A[i][2], B[2][j])
       + MulWhole(A[i][3], B[3][j]) + MulWhole(A[i][4], B[4][j]),
     MulRoot(A[i][1], B[1][j]) + MulRoot(A[i][2], B[2][j])
       + MulRoot(A[i][3], B[3][j]) + MulRoot(A[i][4], B[4][j]) >>

MatRow(A, B, i) ==
  << MatCell(A, B, i, 1), MatCell(A, B, i, 2), MatCell(A, B, i, 3), MatCell(A, B, i, 4) >>

\* the product of two 4x4 matrices (glm's operator*); each factor is a value
\* before its entries are read
MatMul(A, B) ==
  CHOOSE r \in { << MatRow(a, b, 1), MatRow(a, b, 2), MatRow(a, b, 3), MatRow(a, b, 4) >> :
                 a \in {A}, b \in {B} } : TRUE

Z == N(0)

\* glm::scale(v), times 100: v is in hundredths
ScaleMatrix(v) ==
  << <<N(v[1]), Z, Z, Z>>,
     <<Z, N(v[2]), Z, Z>>,
     <<Z, Z, N(v[3]), Z>>,
     <<Z, Z, Z, N(100)>> >>

\* glm::translate(v), times 100: v is in hundredths
TranslationMatrix(v) ==
  << <<N(100), Z, Z, N(v[1])>>,
     <<Z, N(100), Z, N(v[2])>>,
     <<Z, Z, N(100), N(v[3])>>,
     <<Z, Z, Z, N(100)>> >>

\* glm::rotate(glm::radians(deg), axis) for the three unit axes, times 2
RotationX(deg) ==
  << <<N(2), Z, Z, Z>>,
     <<Z, Cos2(deg), NNeg(Sin2(deg)), Z>>,
     <<Z, Sin2(deg), Cos2(deg), Z>>,
     <<Z, Z, Z, N(2)>> >>

RotationY(deg) ==
  << <<Cos2(deg), Z, Sin2(deg), Z>>,
     <<Z, N(2), Z, Z>>,
     <<NNeg(Sin2(deg)), Z, Cos2(deg), Z>>,
     <<Z, Z, Z, N(2)>> >>

RotationZ(deg) ==
  << <<Cos2(deg), NNeg(Sin2(deg)), Z, Z>>,
     <<Sin2(deg), Cos2(deg), Z, Z>>,
     <<Z, Z, N(2), Z>>,
     <<Z, Z, Z, N(2)>> >>

\* what the factors' scalings multiply to: a composed matrix holds MatrixUnit times its entries
MatrixUnit == 100 * 2 * 2 * 2 * 100

\* the same five factors composed with the rotations in the opposite order
ModelMatrix_RotationsReversed(scaleXYZ, XrotationDegrees, YrotationDegrees, ZrotationDegrees, positionXYZ) ==
  MatMul(TranslationMatrix(positionXYZ),
    MatMul(RotationX(XrotationDegrees),
      MatMul(RotationY(YrotationDegrees),
        MatMul(RotationZ(ZrotationDegrees), ScaleMatrix(scaleXYZ)))))

\* modelView = translation * rotationZ * rotationY * rotationX * scale
ModelMatrix(scaleXYZ, XrotationDegrees, YrotationDegrees, ZrotationDegrees, positionXYZ) ==
  MatMul(TranslationMatrix(positionXYZ),
    MatMul(RotationZ(ZrotationDegrees),
      MatMul(RotationY(YrotationDegrees),
        MatMul(RotationX(XrotationDegrees), ScaleMatrix(scaleXYZ)))))

-----------------------------------------------------------------------------
(* Shader state dispatcher.  An operation takes and returns the shader-side   *)
(* state st = [uniforms, events, stateCall, crashed].                         *)

UniformNames ==
  { "model", "objectColor", "objectTexture", "bUseTexture", "UVscale",
    "material.diffuseColor", "material.specularColor", "material.shininess" }

MaterialUniforms ==
  { "material.diffuseColor", "material.specularColor", "material.shininess" }

ShaderState ==
  [ uniforms |-> uniforms, events |-> <<>>, stateCall |-> lastStateCall,
    crashed |-> crashed ]

CallEvent(name, args) == [kind |-> "call", name |-> name, value |-> args]

\* ShaderManager::set...Value(name, value): one uniform write (the value is
\* computed once, then stored and logged)
SetUniform(st, name, value) ==
  CHOOSE r \in { [st EXCEPT !.uniforms[name] = v,
                            !.events = Append(@, [kind |-> "uniform", name |-> name, value |-> v])] :
                 v \in {value} } : TRUE

Called(st, name, args) == [st EXCEPT !.events = Append(@, CallEvent(name, args))]

\* SetTransformations(scaleXYZ, XrotationDegrees, YrotationDegrees, ZrotationDegrees, positionXYZ)
SetTransformations(st, scaleXYZ, XrotationDegrees, YrotationDegrees, ZrotationDegrees, positionXYZ) ==
  LET st1 == Called(st, "SetTransformations",
                    <<scaleXYZ, XrotationDegrees, YrotationDegrees, ZrotationDegrees, positionXYZ>>)
      modelView == ModelMatrix(scaleXYZ, XrotationDegrees, YrotationDegrees,
                               ZrotationDegrees, positionXYZ)
  IN  IF st.crashed THEN st
      ELSE IF NULL # m_pShaderManager THEN SetUniform(st1, "model", modelView)
      ELSE st1

\* the same call, leaving the texture flag as it was
SetShaderColor_KeepsTextureFlag(st, currentColor) ==
  LET st1 == [Called(st, "SetShaderColor", currentColor) EXCEPT !.stateCall = "SetShaderColor"]
  IN  IF st.crashed THEN st
      ELSE IF NULL # m_pShaderManager THEN SetUniform(st1, "objectColor", currentColor)
      ELSE st1

\* SetShaderColor(red, green, blue, alpha)
SetShaderColor(st, currentColor) ==
  LET st1 == [Called(st, "SetShaderColor", currentColor) EXCEPT !.stateCall = "SetShaderColor"]
  IN  IF st.crashed THEN st
      ELSE IF NULL # m_pShaderManager
        THEN SetUniform(SetUniform(st1, "bUseTexture", <<0>>), "objectColor", currentColor)
      ELSE st1

\* the same call, writing a uniform only when its value would change
SetShaderTexture_SkipsUnchanged(st, textureTag) ==
  LET st1 == [Called(st, "SetShaderTexture", <<textureTag>>) EXCEPT !.stateCall = "SetShaderTexture"]
      textureID == FindTextureSlot(textureTag)
      st2 == IF st1.uniforms["bUseTexture"] = <<1>> THEN st1
             ELSE SetUniform(st1, "bUseTexture", <<1>>)
  IN  IF st.crashed THEN st
      ELSE IF NULL # m_pShaderManager
        THEN IF st2.uniforms["objectTexture"] = <<textureID>> THEN st2
             ELSE SetUniform(st2, "objectTexture", <<textureID>>)
      ELSE st1

\* SetShaderTexture(textureTag)
SetShaderTexture(st, textureTag) ==
  LET st1 == [Called(st, "SetShaderTexture", <<textureTag>>) EXCEPT !.stateCall = "SetShaderTexture"]
      textureID == FindTextureSlot(textureTag)
  IN  IF st.crashed THEN st
      ELSE IF NULL # m_pShaderManager
        THEN SetUniform(SetUniform(st1, "bUseTexture", <<1>>), "objectTexture", <<textureID>>)
      ELSE st1

\* SetTextureUVScale(u, v)
SetTextureUVScale(st, u, v) ==
  LET st1 == Called(st, "SetTextureUVScale", <<u, v>>)
  IN  IF st.crashed THEN st
      ELSE IF NULL # m_pShaderManager THEN SetUniform(st1, "UVscale", <<u, v>>)
      ELSE st1

\* a draw of m_basicMeshes: it consumes the uniform values of that moment
DrawMesh(st, mesh, args) ==
  IF st.crashed THEN st
  ELSE [st EXCEPT !.events = Append(@,
          [kind |-> "draw", name |-> mesh, value |-> args,
           uniforms |-> st.uniforms, stateCall |-> st.stateCall])]

-----------------------------------------------------------------------------
(* Material registry *)

RECURSIVE ScanMaterial(_, _)
\* the while loop of FindMaterial: the index of the first entry with the tag, 0 when none
ScanMaterial(tag, index) ==
  IF index <= Len(m_objectMaterials)
    THEN IF m_objectMaterials[index].tag = tag THEN index
         ELSE ScanMaterial(tag, index + 1)
    ELSE 0

\* the same lookup without the early return on an empty list
FindMaterial_NoEmptyCheck(tag, material) ==
  LET index == ScanMaterial(tag, 1)
  IN  IF index # 0
        THEN [ret |-> TRUE,
              material |-> [material EXCEPT
                 !.diffuseColor = m_objectMaterials[index].diffuseColor,
                 !.specularColor = m_objectMaterials[index].specularColor,
                 !.shininess = m_objectMaterials[index].shininess]]
      ELSE [ret |-> TRUE, material |-> material]

\* FindMaterial(tag, material): the result and the caller's material after the call
FindMaterial(tag, material) ==
  LET index == ScanMaterial(tag, 1)
  IN  IF Len(m_objectMaterials) = 0 THEN [ret |-> FALSE, material |-> material]
      ELSE IF index # 0
        THEN [ret |-> TRUE,
              material |-> [material EXCEPT
                 !.diffuseColor = m_objectMaterials[index].diffuseColor,
                 !.specularColor = m_objectMaterials[index].specularColor,
                 !.shininess = m_objectMaterials[index].shininess]]
      ELSE [ret |-> TRUE, material |-> material]

\* what a call through a null m_pShaderManager does: the process stops, or the
\* call is made all the same
NullUses == {"crash", "called"}

\* SetShaderMaterial(materialTag).  uninit is what the local OBJECT_MATERIAL
\* holds before FindMaterial fills it.  m_pShaderManager is used unchecked;
\* nullUse is the outcome of that use when it is null.
SetShaderMaterial(st, materialTag, uninit, nullUse) ==
  LET st1 == Called(st, "SetShaderMaterial", <<materialTag>>)
      found == FindMaterial(materialTag, uninit)
      material == found.material
  IN  IF st.crashed THEN st
      ELSE IF Len(m_objectMaterials) > 0 /\ found.ret = TRUE
        THEN IF m_pShaderManager = NULL /\ nullUse = "crash"
               THEN [st1 EXCEPT !.crashed = TRUE]
             ELSE SetUniform(SetUniform(SetUniform(st1,
                    "material.diffuseColor", material.diffuseColor),
                    "material.specularColor", material.specularColor),
                    "material.shininess", <<material.shininess>>)
      ELSE st1

-----------------------------------------------------------------------------
(* Scene assembler.  A routine is the sequence of the calls it makes. *)

V(x, y, z) == <<x, y, z>>

Transform(scaleXYZ, x, y, z, positionXYZ) ==
  [op |-> "SetTransformations", args |-> <<scaleXYZ, x, y, z, positionXYZ>>]
Color(r, g, b, a) == [op |-> "SetShaderColor", args |-> <<r, g, b, a>>]
Texture(tag) == [op |-> "SetShaderTexture", args |-> <<tag>>]
Draw(mesh, args) == [op |-> mesh, args |-> args]
Routine(name, calls) == <<[op |-> "enter", args |-> <<name>>]>> \o calls

\* the table routine with its shader-state call left out
RenderTable_NoShaderState ==
  << Transform(V(3000, 100, 3000), 0, 0, 0, V(0, 0, 0)),
     Draw("DrawPlaneMesh", <<>>) >>

RenderTable ==
  << Transform(V(3000, 100, 3000), 0, 0, 0, V(0, 0, 0)),
     Texture("marble"),
     Draw("DrawPlaneMesh", <<>>) >>

RenderCologneBottle ==
  << \* blue box for the cologne body
     Transform(V(350, 500, 150), 0, 0, 0, V(-1500, 250, -1500)),
     Texture("blue_glass"),
     Draw("DrawBoxMesh", <<>>),
     \* gold sphere
     Transform(V(50, 50, 20), 0, 0, 0, V(-1500, 250, -1425)),
     Texture("versace"),
     Draw("DrawSphereMesh", <<>>),
     \* smaller cylinder, base of the cap
     Transform(V(70, 80, 70), 0, 0, 0, V(-1500, 500, -1500)),
     Texture("gold"),
     Draw("DrawCylinderMesh", <<>>),
     \* larger cylinder, top of the cap: two draws under one transform
     Transform(V(100, 100, 100), 0, 90, 0, V(-1500, 580, -1500)),
     Texture("gold"),
     Draw("DrawCylinderMesh", <<FALSE, TRUE, TRUE>>),
     Texture("versace"),
     Draw("DrawCylinderMesh", <<TRUE, FALSE, FALSE>>) >>

RenderPerfumeBottle ==
  << \* box for the perfume body
     Transform(V(175, 350, 175), 0, 0, 0, V(-1900, 175, 500)),
     Texture("perfume"),
     Draw("DrawBoxMesh", <<>>),
     \* red label
     Transform(V(65, 100, 125), 90, 0, 0, V(-1900, 175, 590)),
     Color(100, 0, 0, 100),
     Draw("DrawPlaneMesh", <<>>),
     \* smaller cylinder, base of the cap
     Transform(V(65, 50, 65), 0, 0, 0, V(-1900, 350, 500)),
     Texture("gold"),
     Draw("DrawCylinderMesh", <<>>),
     \* perfume cap: five sides under one state, then the top
     Transform(V(150, 75, 150), 0, 0, 0, V(-1900, 437, 500)),
     Texture("gold"),
     Draw("DrawBoxMeshSide", <<"bottom">>),
     Draw("DrawBoxMeshSide", <<"right">>),
     Draw("DrawBoxMeshSide", <<"left">>),
     Draw("DrawBoxMeshSide", <<"back">>),
     Draw("DrawBoxMeshSide", <<"front">>),
     Texture("versace"),
     Draw("DrawBoxMeshSide", <<"top">>) >>

RenderItinerary ==
  << Transform(V(2200, 10, 1100), 0, -60, 0, V(-1800, 10, -500)),
     Color(100, 100, 100, 100),
     Draw("DrawBoxMesh", <<>>),
     \* green torus
     Transform(V(150, 150, 75), 90, 0, 0, V(-2225, 30, -1275)),
     Color(12, 21, 18, 100),
     Draw("DrawTorusMesh", <<>>),
     \* leaf motif
     Transform(V(160, 30, 160), 0, 0, 0, V(-2225, 0, -1275)),
     Color(12, 21, 18, 100),
     Draw("DrawHalfSphereMesh", <<>>) >>

\* the four routines without a body
RenderNecklaceBox == <<>>
RenderRingBox == <<>>
RenderWhiteVowBook == <<>>
RenderBrownVowBook == <<>>

\* the calls of RenderScene, routine by routine
RenderSceneCalls ==
  Routine("RenderTable", RenderTable)
    \o Routine("RenderCologneBottle", RenderCologneBottle)
    \o Routine("RenderPerfumeBottle", RenderPerfumeBottle)
    \o Routine("RenderItinerary", RenderItinerary)
    \o Routine("RenderNecklaceBox", RenderNecklaceBox)
    \o Routine("RenderRingBox", RenderRingBox)
    \o Routine("RenderWhiteVowBook", RenderWhiteVowBook)
    \o Routine("RenderBrownVowBook", RenderBrownVowBook)

\* one call of a routine, made in shader-side state st
Exec(st, call) ==
  CASE call.op = "enter" ->
         IF st.crashed THEN st
         ELSE [st EXCEPT !.events =
                 Append(@, [kind |-> "enter", name |-> call.args[1], value |-> <<>>])]
    [] call.op = "SetTransformations" ->
         SetTransformations(st, call.args[1], call.args[2], call.args[3],
                            call.args[4], call.args[5])
    [] call.op = "SetShaderColor" -> SetShaderColor(st, call.args)
    [] call.op = "SetShaderTexture" -> SetShaderTexture(st, call.args[1])
    [] OTHER -> DrawMesh(st, call.op, call.args)

RECURSIVE Run(_, _, _, _)
\* the calls lo..hi made in order, the first half and then the second; the state
\* is a value before each half and each call reads it
Run(st, calls, lo, hi) ==
  IF lo > hi THEN st
  ELSE IF lo = hi
    THEN CHOOSE r \in { Exec(s, c) : s \in {st}, c \in {calls[lo]} } : TRUE
  ELSE CHOOSE r \in { Run(m, calls, (lo + hi) \div 2 + 1, hi) :
                      m \in { Run(s, calls, lo, (lo + hi) \div 2) : s \in {st} } } : TRUE

RenderScene(st) == Run(st, RenderSceneCalls, 1, Len(RenderSceneCalls))

-----------------------------------------------------------------------------
(* Inputs *)

MaxMaterials == 2
MaxFailedFiles == 1

\* files and tags passed to a direct CreateGLTexture call
DirectFiles == {"textures/versace.jpg", "textures/marble.jpg"}
DirectTags == {"versace", "nope"}

\* tags passed to a direct SetShaderTexture call
LookupTags == {"versace", "perfume", "nope"}

Colors == { <<100, 0, 0, 100>>, <<12, 21, 18, 100>> }
UVScales == { <<100, 100>>, <<200, 50>> }
Meshes == { "DrawBoxMesh", "DrawPlaneMesh" }

\* the angles of the exhaustive composition check: no turn, a quarter turn, a half turn and the scene's -60
TestAngles == {0, 90, 180, -60}
TestScales == { V(100, 100, 100), V(350, 500, 150) }
TestPositions == { V(-1500, 580, -1425) }

MaterialTags == {"gold", "glass"}
MaterialLookupTags == MaterialTags \cup {"wood"}
MaterialBundles ==
  { [diffuseColor |-> V(20, 20, 10), specularColor |-> V(60, 50, 40), shininess |-> 22],
    [diffuseColor |-> V(10, 20, 30), specularColor |-> V(40, 40, 40), shininess |-> 85] }

Material(tag, b) ==
  [tag |-> tag, diffuseColor |-> b.diffuseColor, specularColor |-> b.specularColor,
   shininess |-> b.shininess]

MaterialEntries == { Material(t, b) : t \in MaterialTags, b \in MaterialBundles }

MaterialLists ==
  UNION { [1..n -> MaterialEntries] : n \in 0..MaxMaterials }

\* material lists of the frame-loop runs: none, or one entry
FrameMaterialLists == { l \in MaterialLists : Len(l) <= 1 }

\* values a caller's (or an uninitialised local) OBJECT_MATERIAL may hold before a lookup
CallerMaterials ==
  { Material("", [diffuseColor |-> V(0, 0, 0), specularColor |-> V(0, 0, 0), shininess |-> 0]),
    Material("", [diffuseColor |-> V(77, 1, 99), specularColor |-> V(-5, 3, 8), shininess |-> -31]) }

\* file systems of the dispatcher runs: every image loads; one is missing; one is grey-scale
AllLoad == [f \in SceneFiles |-> 3]
SampleFileSystems ==
  { AllLoad,
    [AllLoad EXCEPT !["textures/versace.jpg"] = 0],
    [AllLoad EXCEPT !["textures/perfume.jpg"] = 1, !["textures/marble.jpg"] = 4] }

\* file systems of the frame-loop runs: at most MaxFailedFiles of the five images fail to load
RenderFileSystems ==
  { fs \in [SceneFiles -> DecodeResults] :
      Cardinality({ f \in SceneFiles : fs[f] \notin {3, 4} }) <= MaxFailedFiles
      /\ Cardinality({ f \in SceneFiles : fs[f] = 4 }) <= 1 }

-----------------------------------------------------------------------------
(* Initial states *)

\* the registry members as SceneManager.h declares them: no entry, every cell blank
TextureRegistryInit ==
  /\ m_loadedTextures = 0
  /\ m_textureIDs = [i \in Cells |-> EmptyCell]

\* SceneManager(pShaderManager), in a process with the given file system and materials
Constructed(shaders, fileSystems, materialLists) ==
  /\ m_pShaderManager \in shaders
  /\ TextureRegistryInit
  /\ m_objectMaterials \in materialLists
  /\ files \in fileSystems
  /\ glNextID = 1
  /\ glTextureUnits = [i \in Cells |-> 0]
  /\ uniforms = [n \in UniformNames |-> <<>>]
  /\ crashed = FALSE
  /\ lastCall = [op |-> "SceneManager", args |-> <<>>, ret |-> <<>>, out |-> <<>>]
  /\ events = <<>>
  /\ lastStateCall = ""
  /\ frames = <<>>
  /\ loadLog = <<>>
  /\ prepares = 0
  /\ directLoads = 0

Init == Constructed({ShaderManager}, [SceneFiles -> DecodeResults], {<<>>})
InitRender == Constructed({NULL, ShaderManager}, RenderFileSystems, {<<>>})
InitDispatch == Constructed({NULL, ShaderManager}, SampleFileSystems, {<<>>})
InitTransform == Constructed({NULL, ShaderManager}, {AllLoad}, {<<>>})
InitMaterial == Constructed({NULL, ShaderManager}, {AllLoad}, MaterialLists)
InitFrames == Constructed({NULL, ShaderManager}, SampleFileSystems, FrameMaterialLists)
InitNullShader == Constructed({NULL}, SampleFileSystems, MaterialLists)

-----------------------------------------------------------------------------
(* Actions: one per call on the SceneManager *)

Returned(op, args, ret, out) == [op |-> op, args |-> args, ret |-> ret, out |-> out]

\* the registry after a chain of loads
StoreRegistry(reg) ==
  /\ m_loadedTextures' = reg.count
  /\ m_textureIDs' = reg.ids
  /\ glNextID' = reg.nextID
  /\ loadLog' = reg.log
  /\ crashed' = reg.crashed

\* the shader-side state after a dispatcher or render call
StoreShaderState(st) ==
  /\ uniforms' = st.uniforms
  /\ events' = st.events
  /\ lastStateCall' = st.stateCall
  /\ crashed' = st.crashed

CanLoad == ~crashed /\ m_loadedTextures <= MaxTextures

CreateGLTextureCall(filename, tag) ==
  /\ CanLoad
  /\ directLoads < MaxDirectLoads
  /\ \E oob \in {"crash", "stored"} :
       LET reg == CreateGLTexture(Registry, filename, tag, oob)
       IN  /\ StoreRegistry(reg)
           /\ lastCall' = Returned("CreateGLTexture", <<filename, tag>>,
                                   IF reg.crashed THEN <<>> ELSE <<reg.ret>>, <<>>)
  /\ directLoads' = directLoads + 1
  /\ events' = <<>>
  /\ frames' = <<>>
  /\ UNCHANGED << m_pShaderManager, m_objectMaterials, files, glTextureUnits,
                  uniforms, lastStateCall, prepares >>

\* PrepareScene: LoadSceneTextures (the loads, then the bind), then the mesh loads
PrepareSceneCall ==
  /\ CanLoad
  /\ prepares < MaxPrepares
  /\ \E oob \in {"crash", "stored"} :
       LET reg == LoadSceneTextures(Registry, oob)
       IN  /\ StoreRegistry(reg)
           /\ glTextureUnits' = BindGLTextures(reg, glTextureUnits)
  /\ prepares' = prepares + 1
  /\ lastCall' = Returned("PrepareScene", <<>>, <<>>, <<>>)
  /\ events' = <<>>
  /\ frames' = <<>>
  /\ UNCHANGED << m_pShaderManager, m_objectMaterials, files, uniforms,
                  lastStateCall, directLoads >>

\* the same call, dropping the texture entries once the frame is drawn
RenderSceneCall_DropsEntries ==
  /\ ~crashed
  /\ LET st == RenderScene(ShaderState)
     IN  /\ StoreShaderState(st)
         /\ frames' = IF Len(frames) < 2 THEN Append(frames, st.events)
                      ELSE <<frames[2], st.events>>
  /\ lastCall' = Returned("RenderScene", <<>>, <<>>, <<>>)
  /\ m_loadedTextures' = 0
  /\ UNCHANGED << m_pShaderManager, m_textureIDs, m_objectMaterials,
                  files, glNextID, glTextureUnits, loadLog, prepares, directLoads >>

RenderSceneCall ==
  /\ ~crashed
  /\ LET st == RenderScene(ShaderState)
     IN  /\ StoreShaderState(st)
         /\ frames' = IF Len(frames) < 2 THEN Append(frames, st.events)
                      ELSE <<frames[2], st.events>>
  /\ lastCall' = Returned("RenderScene", <<>>, <<>>, <<>>)
  /\ UNCHANGED << m_pShaderManager, m_loadedTextures, m_textureIDs, m_objectMaterials,
                  files, glNextID, glTextureUnits, loadLog, prepares, directLoads >>

\* a dispatcher call made on its own
Dispatched(op, args, st) ==
  /\ ~crashed
  /\ StoreShaderState(st)
  /\ lastCall' = Returned(op, args, <<>>, <<>>)
  /\ frames' = <<>>
  /\ UNCHANGED << m_pShaderManager, m_loadedTextures, m_textureIDs, m_objectMaterials,
                  files, glNextID, glTextureUnits, loadLog, prepares, directLoads >>

SetTransformationsCall(scaleXYZ, x, y, z, positionXYZ) ==
  Dispatched("SetTransformations", <<scaleXYZ, x, y, z, positionXYZ>>,
             SetTransformations(ShaderState, scaleXYZ, x, y, z, positionXYZ))

SetShaderColorCall(color) ==
  Dispatched("SetShaderColor", color, SetShaderColor(ShaderState, color))

SetShaderTextureCall(tag) ==
  Dispatched("SetShaderTexture", <<tag>>, SetShaderTexture(ShaderState, tag))

SetTextureUVScaleCall(uv) ==
  Dispatched("SetTextureUVScale", uv, SetTextureUVScale(ShaderState, uv[1], uv[2]))

SetShaderMaterialCall(tag, uninit, nullUse) ==
  Dispatched("SetShaderMaterial", <<tag>>, SetShaderMaterial(ShaderState, tag, uninit, nullUse))

DrawCall(mesh) ==
  Dispatched(mesh, <<>>, DrawMesh(ShaderState, mesh, <<>>))

FindMaterialCall(tag, material) ==
  /\ ~crashed
  /\ LET found == FindMaterial(tag, material)
     IN  lastCall' = Returned("FindMaterial", <<tag, material>>, <<found.ret>>, <<found.material>>)
  /\ events' = <<>>
  /\ frames' = <<>>
  /\ UNCHANGED << m_pShaderManager, m_loadedTextures, m_textureIDs, m_objectMaterials,
                  files, glNextID, glTextureUnits, uniforms, crashed, lastStateCall,
                  loadLog, prepares, directLoads >>

-----------------------------------------------------------------------------
(* Specifications *)

\* the texture registry: loads made one by one and by PrepareScene
Next ==
  \/ \E f \in DirectFiles, t \in DirectTags : CreateGLTextureCall(f, t)
  \/ PrepareSceneCall

Spec == Init /\ [][Next]_vars

\* the frame loop: PrepareScene and RenderScene
NextRender ==
  \/ PrepareSceneCall
  \/ RenderSceneCall

SpecRender == InitRender /\ [][NextRender]_vars

\* the frame loop of a SceneManager that holds materials
NextFrames ==
  \/ PrepareSceneCall
  \/ RenderSceneCall

SpecFrames == InitFrames /\ [][NextFrames]_vars

\* the dispatcher's calls in any order, with draws between them
NextDispatch ==
  \/ PrepareSceneCall
  \/ \E c \in Colors : SetShaderColorCall(c)
  \/ \E t \in LookupTags : SetShaderTextureCall(t)
  \/ \E uv \in UVScales : SetTextureUVScaleCall(uv)
  \/ \E m \in Meshes : DrawCall(m)

SpecDispatch == InitDispatch /\ [][NextDispatch]_vars

\* the transform composer
NextTransform ==
  \E s \in TestScales, x \in TestAngles, y \in TestAngles, z \in TestAngles,
     p \in TestPositions : SetTransformationsCall(s, x, y, z, p)

SpecTransform == InitTransform /\ [][NextTransform]_vars

\* the material registry
NextMaterial ==
  \/ \E t \in MaterialLookupTags, m \in CallerMaterials : FindMaterialCall(t, m)
  \/ \E t \in MaterialLookupTags, m \in CallerMaterials, u \in NullUses :
       SetShaderMaterialCall(t, m, u)

SpecMaterial == InitMaterial /\ [][NextMaterial]_vars

\* a SceneManager built without a shader manager: every dispatcher call, with
\* PrepareScene filling the texture registry
NextNullShader ==
  \/ PrepareSceneCall
  \/ \E s \in TestScales, x \in TestAngles, y \in {0, -60}, z \in {0}, p \in TestPositions :
       SetTransformationsCall(s, x, y, z, p)
  \/ \E c \in Colors : SetShaderColorCall(c)
  \/ \E t \in LookupTags : SetShaderTextureCall(t)
  \/ \E uv \in UVScales : SetTextureUVScaleCall(uv)
  \/ \E t \in MaterialLookupTags, m \in CallerMaterials, u \in NullUses :
       SetShaderMaterialCall(t, m, u)

SpecNullShader == InitNullShader /\ [][NextNullShader]_vars

-----------------------------------------------------------------------------
(* Properties of the texture registry, under Spec *)

RegisteredTags == { m_textureIDs[i].tag : i \in { c \in Cells : c < m_loadedTextures } }

\* the number of successful loads that preceded the first successful load of tag t
LoadsBeforeFirst(t) ==
  (CHOOSE i \in 1..Len(loadLog) : loadLog[i] = t /\ \A j \in 1..(i - 1) : loadLog[j] # t) - 1

\* C1: for every tag that a registered entry holds, FindTextureSlot returns the
\* index of the earliest-registered entry with that tag; the index lies in
\* [0, m_loadedTextures) and equals the number of successful loads made before
\* that entry was registered.
C1_FindSlotIsRegistrationOrder ==
  /\ Len(loadLog) = m_loadedTextures
  /\ \A t \in RegisteredTags :
       LET slot == FindTextureSlot(t)
       IN  /\ slot \in 0..(m_loadedTextures - 1)
           /\ m_textureIDs[slot].tag = t
           /\ \A i \in 0..(slot - 1) : m_textureIDs[i].tag # t
           /\ slot = LoadsBeforeFirst(t)

\* the five scene tags were registered in order, and again after that, and
\* "versace" is found at slot 2
C1_Witness ==
  /\ Len(loadLog) > Len(SceneTextures)
  /\ \A i \in 1..Len(SceneTextures) : loadLog[i] = SceneTextures[i].tag
  /\ \E i \in 4..Len(loadLog) : loadLog[i] = "versace"
  /\ FindTextureSlot("versace") = 2

\* C2: a CreateGLTexture call on a file that does not decode, or whose channel
\* count is neither 3 nor 4, returns false and leaves the entry count and every
\* cell of the registry as they were; and a call that returns false changed nothing.
C2_FailedLoadLeavesRegistry ==
  [][ lastCall'.op = "CreateGLTexture" =>
        /\ files[lastCall'.args[1]] \notin {3, 4} => lastCall'.ret = <<FALSE>>
        /\ lastCall'.ret = <<FALSE>> =>
             /\ m_loadedTextures' = m_loadedTextures
             /\ m_textureIDs' = m_textureIDs ]_vars

\* a load of an image with one channel was refused while the registry held entries
C2_Witness ==
  /\ lastCall.op = "CreateGLTexture"
  /\ lastCall.ret = <<FALSE>>
  /\ files[lastCall.args[1]] = 1
  /\ m_loadedTextures > 0

\* C3: for every tag that no registered entry holds, FindTextureSlot returns -1.
C3_AbsentTagNotFound ==
  \A t \in Tags : t \notin RegisteredTags => FindTextureSlot(t) = -1

\* entries are registered, none of them tagged "nope", and the lookup of "nope" gives -1
C3_Witness ==
  /\ m_loadedTextures > 1
  /\ "nope" \notin RegisteredTags
  /\ FindTextureSlot("nope") = -1

\* C10: the number of registered entries never exceeds the MaxTextures texture
\* units, so every cell written, every unit bound and every slot found is below it.
C10_CountWithinUnits ==
  /\ m_loadedTextures <= MaxTextures
  /\ \A i \in Cells : m_textureIDs[i] # EmptyCell => i < MaxTextures
  /\ \A i \in Cells : glTextureUnits[i] # 0 => i < MaxTextures
  /\ \A t \in Tags : FindTextureSlot(t) < MaxTextures

-----------------------------------------------------------------------------
(* Properties of a frame, under SpecRender *)

IsDraw(e, i) == e[i].kind = "draw"
IsCall(e, i, name) == e[i].kind = "call" /\ e[i].name = name
IsStateCall(e, i) == IsCall(e, i, "SetShaderColor") \/ IsCall(e, i, "SetShaderTexture")

\* the last draw or routine entry before event i (every routine starts with its entry)
Boundary(e, i) ==
  CHOOSE j \in 1..(i - 1) :
    /\ e[j].kind \in {"draw", "enter"}
    /\ \A k \in (j + 1)..(i - 1) : e[k].kind \notin {"draw", "enter"}

\* the entry of the routine event i belongs to
RoutineStart(e, i) ==
  CHOOSE j \in 1..(i - 1) :
    /\ e[j].kind = "enter"
    /\ \A k \in (j + 1)..(i - 1) : e[k].kind # "enter"

\* every draw of the event list has its own transform call and, after it, its own
\* shader-state call since the draw (or routine entry) before it
CompleteTriples(e) ==
  \A i \in 1..Len(e) : IsDraw(e, i) =>
    \E k, l \in (Boundary(e, i) + 1)..(i - 1) :
      k < l /\ IsCall(e, k, "SetTransformations") /\ IsStateCall(e, l)

\* every draw of the event list follows, in its routine, a transform call and a
\* later shader-state call, and the draws between that transform call and the
\* draw are of the draw's own mesh
TriplesPerPrimitive(e) ==
  \A i \in 1..Len(e) : IsDraw(e, i) =>
    \E k \in (RoutineStart(e, i) + 1)..(i - 1) :
      /\ IsCall(e, k, "SetTransformations")
      /\ \A j \in (k + 1)..(i - 1) : ~IsCall(e, j, "SetTransformations")
      /\ \E l \in (k + 1)..(i - 1) : IsStateCall(e, l)
      /\ \A j \in (k + 1)..(i - 1) : IsDraw(e, j) => e[j].name = e[i].name

\* C4 as stated: in every RenderScene call, each draw is a complete
\* (transform, shader-state, draw) triple of its own.
C4_EveryDrawIsATriple ==
  lastCall.op = "RenderScene" => CompleteTriples(events)

\* C4 as amended: in every RenderScene call, each draw is preceded within its
\* routine by a transform call and a later shader-state call, and shares them
\* only with earlier draws of the same mesh.
C4_TriplesPerPrimitive ==
  lastCall.op = "RenderScene" => TriplesPerPrimitive(events)

\* a frame was rendered, with the cylinder's top drawn under the transform of its sides
C4_Witness ==
  /\ lastCall.op = "RenderScene"
  /\ \E i \in 1..Len(events) :
       /\ IsDraw(events, i)
       /\ events[i].name = "DrawCylinderMesh"
       /\ events[i].value = <<TRUE, FALSE, FALSE>>

\* the uniform writes and draws of an event list, in order
Emitted(e) ==
  LET keep == SelectSeq([i \in 1..Len(e) |-> i], LAMBDA i : e[i].kind \in {"uniform", "draw"})
  IN  [n \in 1..Len(keep) |->
         [kind |-> e[keep[n]].kind, name |-> e[keep[n]].name, value |-> e[keep[n]].value]]

\* C6: two successive RenderScene calls with no registry change between them emit
\* the same sequence of uniform writes (name and value) and draws.
C6_RenderIdempotent ==
  Len(frames) = 2 => Emitted(frames[1]) = Emitted(frames[2])

\* two frames were rendered through the shader after a PrepareScene in which a load failed
C6_Witness ==
  /\ Len(frames) = 2
  /\ m_pShaderManager # NULL
  /\ prepares = 1
  /\ m_loadedTextures = Len(SceneTextures) - 1
  /\ Len(Emitted(frames[2])) > 21

-----------------------------------------------------------------------------
(* Properties of the dispatcher, under SpecDispatch *)

\* C5: with a shader present, at every draw "bUseTexture" is 0 when the most
\* recent shader-state call was SetShaderColor and 1 when it was SetShaderTexture.
C5_TextureFlagFollowsLastStateCall ==
  m_pShaderManager # NULL =>
    \A i \in 1..Len(events) : IsDraw(events, i) =>
      /\ events[i].stateCall = "SetShaderColor" => events[i].uniforms["bUseTexture"] = <<0>>
      /\ events[i].stateCall = "SetShaderTexture" => events[i].uniforms["bUseTexture"] = <<1>>

\* a draw after SetShaderTexture and then SetShaderColor, through the shader
C5_Witness ==
  /\ m_pShaderManager # NULL
  /\ \E i \in 1..Len(events) :
       /\ IsDraw(events, i)
       /\ events[i].stateCall = "SetShaderColor"
       /\ events[i].uniforms["objectTexture"] # <<>>
       /\ events[i].uniforms["bUseTexture"] = <<0>>

-----------------------------------------------------------------------------
(* Properties of the transform composer, under SpecTransform.  The expected     *)
(* image of a point is worked out on vectors, one step after the other: scale,  *)
(* turn about X, about Y, about Z, move.                                        *)

PAdd(x, y) == <<x[1] + y[1], x[2] + y[2]>>
PSub(x, y) == <<x[1] - y[1], x[2] - y[2]>>
PMul(x, y) == <<MulWhole(x, y), MulRoot(x, y)>>
PTimes(n, x) == <<n * x[1], n * x[2]>>

\* the point scaled: 100 times the scaled point, the scale being in hundredths
ScalePoint(scaleXYZ, p) == << N(scaleXYZ[1] * p[1]), N(scaleXYZ[2] * p[2]), N(scaleXYZ[3] * p[3]) >>

\* twice the vector turned by deg about the X, the Y and the Z axis
TurnX(deg, v) ==
  << PTimes(2, v[1]),
     PSub(PMul(Cos2(deg), v[2]), PMul(Sin2(deg), v[3])),
     PAdd(PMul(Sin2(deg), v[2]), PMul(Cos2(deg), v[3])) >>

TurnY(deg, v) ==
  << PAdd(PMul(Cos2(deg), v[1]), PMul(Sin2(deg), v[3])),
     PTimes(2, v[2]),
     PSub(PMul(Cos2(deg), v[3]), PMul(Sin2(deg), v[1])) >>

TurnZ(deg, v) ==
  << PSub(PMul(Cos2(deg), v[1]), PMul(Sin2(deg), v[2])),
     PAdd(PMul(Sin2(deg), v[1]), PMul(Cos2(deg), v[2])),
     PTimes(2, v[3]) >>

\* MatrixUnit times the image of point p: scaled, turned about X, Y and Z, then moved
ExpectedImage(scaleXYZ, x, y, z, positionXYZ, p) ==
  LET turned == TurnZ(z, TurnY(y, TurnX(x, ScalePoint(scaleXYZ, p))))
  IN  [i \in 1..3 |-> PAdd(PTimes(100, turned[i]), N(800 * positionXYZ[i]))]

\* what the matrix M makes of the point p (with 1 as its fourth coordinate)
MatrixImage(M, p) ==
  [i \in 1..4 |->
     PAdd(PAdd(PTimes(p[1], M[i][1]), PTimes(p[2], M[i][2])),
          PAdd(PTimes(p[3], M[i][3]), M[i][4]))]

\* the origin and the three unit points: their images determine an affine matrix
TestPoints == { V(0, 0, 0), V(1, 0, 0), V(0, 1, 0), V(0, 0, 1) }

\* C7: SetTransformations writes to "model" the product T(P) * Rz(z) * Ry(y) *
\* Rx(x) * Scale(S), the matrix that scales a point, turns it about X, then Y,
\* then Z, then moves it by P; it writes no other uniform.
C7_ModelIsTRzRyRxS ==
  (lastCall.op = "SetTransformations" /\ m_pShaderManager # NULL) =>
    LET a == lastCall.args
        M == uniforms["model"]
    IN  /\ Len(events) = 2
        /\ events[1] = CallEvent("SetTransformations", a)
        /\ events[2] = [kind |-> "uniform", name |-> "model", value |-> M]
        /\ \A n \in UniformNames \ {"model"} : uniforms[n] = <<>>
        /\ M[4] = << Z, Z, Z, N(MatrixUnit) >>
        /\ \A p \in TestPoints :
             LET image == MatrixImage(M, p)
                 expected == ExpectedImage(a[1], a[2], a[3], a[4], a[5], p)
             IN  /\ image[4] = N(MatrixUnit)
                 /\ \A i \in 1..3 : image[i] = expected[i]

\* a call with an uneven scale and a turn about each axis, through the shader
C7_Witness ==
  /\ lastCall.op = "SetTransformations"
  /\ m_pShaderManager # NULL
  /\ lastCall.args = << V(350, 500, 150), 90, -60, 180, V(-1500, 580, -1425) >>
  /\ uniforms["model"] # <<>>

-----------------------------------------------------------------------------
(* Properties of the material registry, under SpecMaterial *)

MaterialWrites == SelectSeq(events, LAMBDA e : e.kind = "uniform" /\ e.name \in MaterialUniforms)

Matches(tag) == { i \in 1..Len(m_objectMaterials) : m_objectMaterials[i].tag = tag }
FirstMatch(tag) == CHOOSE i \in Matches(tag) : \A j \in Matches(tag) : i <= j

\* C8: with no material registered, FindMaterial returns false for every tag and
\* leaves the caller's material as it was, and SetShaderMaterial writes no uniform.
C8_EmptyRegistryFindsNothing ==
  Len(m_objectMaterials) = 0 =>
    /\ lastCall.op = "FindMaterial" =>
         lastCall.ret = <<FALSE>> /\ lastCall.out = <<lastCall.args[2]>>
    /\ lastCall.op = "SetShaderMaterial" =>
         /\ MaterialWrites = <<>>
         /\ \A n \in MaterialUniforms : uniforms[n] = <<>>
         /\ ~crashed

\* a lookup was made in an empty registry with a caller's material that is not blank
C8_Witness ==
  /\ Len(m_objectMaterials) = 0
  /\ lastCall.op = "FindMaterial"
  /\ lastCall.args[2].shininess # 0
  /\ lastCall.ret = <<FALSE>>

\* C9: SetShaderMaterial writes the three material uniforms only when an entry
\* has the tag, and then the fields of the first such entry; when entries exist
\* and none has the tag, FindMaterial reports no match and nothing is written.
C9_MaterialWrittenOnlyOnMatch ==
  /\ lastCall.op = "SetShaderMaterial" =>
       IF Matches(lastCall.args[1]) = {} THEN MaterialWrites = <<>>
       ELSE MaterialWrites # <<>> =>
              LET m == m_objectMaterials[FirstMatch(lastCall.args[1])]
              IN  /\ uniforms["material.diffuseColor"] = m.diffuseColor
                  /\ uniforms["material.specularColor"] = m.specularColor
                  /\ uniforms["material.shininess"] = <<m.shininess>>
  /\ lastCall.op = "FindMaterial" =>
       (Matches(lastCall.args[1]) = {} => lastCall.ret = <<FALSE>>)

-----------------------------------------------------------------------------
(* Properties of a frame after a failed load, under SpecRender *)

\* the scene tags that PrepareScene left out of the registry
MissingTags == { t \in SceneTags : FindTextureSlot(t) = -1 }

\* the draws among the calls of RenderScene
SceneDraws ==
  SelectSeq(RenderSceneCalls,
            LAMBDA c : c.op \notin {"enter", "SetTransformations", "SetShaderColor",
                                    "SetShaderTexture"})

\* the draws of an event list, by mesh and arguments
DrawsOf(e) ==
  LET keep == SelectSeq([i \in 1..Len(e) |-> i], LAMBDA i : e[i].kind = "draw")
  IN  [n \in 1..Len(keep) |-> [op |-> e[keep[n]].name, args |-> e[keep[n]].value]]

\* the tag of the SetShaderTexture call that draw i follows, "" when the last
\* shader-state call before it was SetShaderColor
TagAtDraw(e, i) ==
  LET l == CHOOSE j \in 1..(i - 1) :
             IsStateCall(e, j) /\ \A k \in (j + 1)..(i - 1) : ~IsStateCall(e, k)
  IN  IF IsCall(e, l, "SetShaderTexture") THEN e[l].value[1] ELSE ""

\* the frame issues every draw of RenderScene, in order
FrameComplete(e) ==
  DrawsOf(e) = [n \in 1..Len(SceneDraws) |-> [op |-> SceneDraws[n].op, args |-> SceneDraws[n].args]]

\* every draw that follows a SetShaderTexture with a missing tag has the texture flag off
MissingDrawnUntextured(e) ==
  \A i \in 1..Len(e) :
    IsDraw(e, i) /\ TagAtDraw(e, i) \in MissingTags => e[i].uniforms["bUseTexture"] = <<0>>

\* C11: when a load of PrepareScene failed, a RenderScene call through the shader
\* still issues every draw of the frame, and every draw whose texture tag is
\* missing from the registry is made with "bUseTexture" false.
C11_FailedLoadDrawsUntextured ==
  ( /\ lastCall.op = "RenderScene"
    /\ m_pShaderManager # NULL
    /\ prepares = 1
    /\ MissingTags # {} )
  => FrameComplete(events) /\ MissingDrawnUntextured(events)

\* the part of it that the code keeps: no draw of the frame is dropped
FrameNotAbortedAfterFailedLoad ==
  ( /\ lastCall.op = "RenderScene"
    /\ prepares = 1
    /\ MissingTags # {} )
  => FrameComplete(events)

-----------------------------------------------------------------------------
(* Properties of a SceneManager without a shader manager, under SpecNullShader *)

DispatcherCalls ==
  { "SetTransformations", "SetShaderColor", "SetShaderTexture", "SetTextureUVScale",
    "SetShaderMaterial" }

\* C12: with m_pShaderManager null, each of SetTransformations, SetShaderColor,
\* SetShaderTexture, SetTextureUVScale and SetShaderMaterial returns without a
\* call through the null pointer: no uniform is written, no write is logged and
\* the process goes on, whatever the two registries hold.
C12_NullShaderSkipsEveryCall ==
  m_pShaderManager = NULL /\ lastCall.op \in DispatcherCalls =>
    /\ ~crashed
    /\ \A i \in 1..Len(events) : events[i].kind # "uniform"
    /\ \A n \in UniformNames : uniforms[n] = <<>>

\* the four calls that test the pointer do skip: a step by one of them writes no uniform
NullShaderSkipsCheckedCalls ==
  [][ m_pShaderManager = NULL /\ lastCall'.op \in DispatcherCalls \ {"SetShaderMaterial"} =>
        /\ crashed' = crashed
        /\ uniforms' = uniforms
        /\ \A i \in 1..Len(events') : events'[i].kind # "uniform" ]_vars

-----------------------------------------------------------------------------
(* Properties of the registries across frames, under SpecFrames *)

\* C13: after PrepareScene, a RenderScene call leaves the texture registry (the
\* count and every cell: tags, handles, order), the bound units and the
\* material list as they were, and FindTextureSlot gives the same slot for
\* every tag after the frame as before it.
C13_RenderLeavesRegistries ==
  [][ prepares >= 1 /\ lastCall'.op = "RenderScene" =>
        /\ m_loadedTextures' = m_loadedTextures
        /\ m_textureIDs' = m_textureIDs
        /\ glTextureUnits' = glTextureUnits
        /\ m_objectMaterials' = m_objectMaterials
        /\ \A t \in Tags : FindTextureSlot(t)' = FindTextureSlot(t) ]_vars

\* two frames, stub routines included, were rendered through the shader over a
\* registry with entries and a material list with an entry
C13_Witness ==
  /\ prepares >= 1
  /\ lastCall.op = "RenderScene"
  /\ Len(frames) = 2
  /\ m_pShaderManager # NULL
  /\ m_loadedTextures > 0
  /\ Len(m_objectMaterials) > 0
  /\ FindTextureSlot("gold") >= 0
  /\ \E i \in 1..Len(events) : events[i].kind = "enter" /\ events[i].name = "RenderBrownVowBook"

=============================================================================
